---- MODULE Spec2Model ----
(***************************************************************************)
(* Model of src/src/utils/env/index.js: resolution of environment          *)
(* variables from several sources (getEnvelopeEnv and its helpers) and     *)
(* the Mongo <-> Envelope translations.                                    *)
(*                                                                         *)
(* Representation of JavaScript values:                                    *)
(*  - a context / branch string is a sequence of one-character strings,    *)
(*    so that the prefix strip of normalizeContext is computed;            *)
(*  - a variable key is a sequence of UTF-16 code units (naturals), so     *)
(*    that toLowerCase and the string comparison `<` are computed;         *)
(*  - a variable value is a TLA+ string, "" being the falsy empty string;  *)
(*  - a plain object used as a dictionary is a function from keys;         *)
(*  - an array is a sequence.                                              *)
(***************************************************************************)
EXTENDS Integers, Sequences, FiniteSets, TLC

VARIABLES
    \* ---- one call of getEnvelopeEnv ----
    pc,             \* position of the call
    context,        \* argument `context`
    scope,          \* argument `scope`
    key,            \* argument `key` ('' = no single key)
    env,            \* argument `env`: key -> [sources, value]
    accountId,      \* siteInfo.account_slug
    siteId,         \* siteInfo.id
    fetches,        \* api requests issued so far, in order
    pending,        \* the fetchEnvelopeItems promises not yet settled
    settled,        \* the order in which the promises settled
    apiOutcome,     \* what the api answered to each request
    fetched,        \* what each fetchEnvelopeItems promise settled with
    result,         \* the value getEnvelopeEnv resolved with
    error,          \* the error getEnvelopeEnv rejected with
    \* ---- one use of the translators ----
    tpc,            \* position of the translation
    mongo,          \* the flat env, as an ordered list of <<key, value>>
    envVars,        \* the caller's array of Envelope items
    envVarsBefore,  \* that array as it was when the call was made
    tcontext,       \* argument `context` of translateFromEnvelopeToMongo
    tresult,        \* the object translateFromEnvelopeToMongo returned
    \* ---- one use of findValueInValues ----
    fpc,            \* position of the lookup
    fvalues,        \* argument `values`
    fcontext,       \* argument `context`
    fresult         \* the returned value object, or UndefinedValue

vars == <<pc, context, scope, key, env, accountId, siteId, fetches, pending,
          settled, apiOutcome, fetched, result, error,
          tpc, mongo, envVars, envVarsBefore, tcontext, tresult,
          fpc, fvalues, fcontext, fresult>>

envelopeVars == <<pc, context, scope, key, env, accountId, siteId, fetches,
                  pending, settled, apiOutcome, fetched, result, error>>
translateVars == <<tpc, mongo, envVars, envVarsBefore, tcontext, tresult>>
findVars == <<fpc, fvalues, fcontext, fresult>>

-----------------------------------------------------------------------------
(* Bounds *)

\* longest list of items the api returns / the caller passes
MaxItems == 2
\* longest `values` array handed to findValueInValues
MaxValues == 2

-----------------------------------------------------------------------------
(* JavaScript values *)

\* the value `undefined`; no string equals it
Undefined == <<"undefined">>

\* the empty string as a key (code units) or as a context (characters)
EmptyString == <<>>

\* string literals of the source, as character sequences
ALL == <<"a", "l", "l">>
PRODUCTION == <<"p", "r", "o", "d", "u", "c", "t", "i", "o", "n">>
DEPLOY_PREVIEW == <<"d", "e", "p", "l", "o", "y", "-", "p", "r", "e", "v", "i", "e", "w">>
BRANCH_DEPLOY == <<"b", "r", "a", "n", "c", "h", "-", "d", "e", "p", "l", "o", "y">>
DEV == <<"d", "e", "v">>
BRANCH == <<"b", "r", "a", "n", "c", "h">>
DP == <<"d", "p">>
PROD == <<"p", "r", "o", "d">>
BRANCH_PREFIX == <<"b", "r", "a", "n", "c", "h", ":">>

\* branch names used as inputs
STAGING == <<"s", "t", "a", "g", "i", "n", "g">>
BRANCH_STAGING == BRANCH_PREFIX \o STAGING

AVAILABLE_CONTEXTS == <<ALL, PRODUCTION, DEPLOY_PREVIEW, BRANCH_DEPLOY, DEV>>
AVAILABLE_SCOPES == <<"builds", "functions", "runtime", "post_processing">>

\* Array.prototype.includes
Includes(arr, x) == \E i \in 1..Len(arr) : arr[i] = x

\* { ...a, ...b }: the keys of both, b's entry winning on collision
Spread(a, b) ==
    [k \in (DOMAIN a) \cup (DOMAIN b) |-> IF k \in DOMAIN b THEN b[k] ELSE a[k]]

EmptyObject == [k \in {} |-> Undefined]

-----------------------------------------------------------------------------
(* normalizeContext *)

CONTEXT_SYNONYMS(ctx) ==
    IF ctx = DP THEN DEPLOY_PREVIEW
    ELSE IF ctx = PROD THEN PRODUCTION
    ELSE Undefined

\* context.replace(/^branch:/, '')
StripBranchPrefix(ctx) ==
    IF Len(ctx) >= Len(BRANCH_PREFIX) /\ SubSeq(ctx, 1, Len(BRANCH_PREFIX)) = BRANCH_PREFIX
    THEN SubSeq(ctx, Len(BRANCH_PREFIX) + 1, Len(ctx))
    ELSE ctx

normalizeContext(ctx) ==
    IF ctx = Undefined \/ ctx = EmptyString THEN ctx
    ELSE StripBranchPrefix(IF CONTEXT_SYNONYMS(ctx) # Undefined
                           THEN CONTEXT_SYNONYMS(ctx) ELSE ctx)

-----------------------------------------------------------------------------
(* findValueInValues *)

\* `val.context_parameter` of a value object that may lack the property
ContextParameter(val) ==
    IF "context_parameter" \in DOMAIN val THEN val.context_parameter ELSE Undefined

\* the predicate handed to values.find
FindPredicate(val, ctx) ==
    IF ~Includes(AVAILABLE_CONTEXTS, ctx)
    THEN Includes(<<BRANCH, ALL>>, val.context) /\ ContextParameter(val) = ctx
    ELSE Includes(<<ctx, ALL>>, val.context)

\* Array.prototype.find: the first element satisfying the predicate
FindIndex(values, ctx) ==
    LET hits == {i \in 1..Len(values) : FindPredicate(values[i], ctx)}
    IN IF hits = {} THEN 0 ELSE CHOOSE i \in hits : \A j \in hits : i <= j

\* what find returns when no element satisfies the predicate
UndefinedValue == [undefined |-> TRUE]

findValueInValues(values, ctx) ==
    IF FindIndex(values, ctx) = 0 THEN UndefinedValue ELSE values[FindIndex(values, ctx)]

-----------------------------------------------------------------------------
(* Strings as keys: toLowerCase, `<`, and Array.prototype.sort *)

\* String.prototype.toLowerCase on one code unit (A-Z -> a-z)
LowerUnit(u) == IF u >= 65 /\ u <= 90 THEN u + 32 ELSE u

toLowerCase(str) == [i \in 1..Len(str) |-> LowerUnit(str[i])]

\* the relational operator `<` on two strings: lexicographic on code units
StringLess(a, b) ==
    \E i \in 1..(Len(b)) :
        /\ i <= Len(a) + 1
        /\ \A j \in 1..(i - 1) : a[j] = b[j]
        /\ (i = Len(a) + 1 \/ a[i] < b[i])

\* (left, right) => (left.key.toLowerCase() < right.key.toLowerCase() ? -1 : 1)
KeyComparator(left, right) ==
    IF StringLess(toLowerCase(left.key), toLowerCase(right.key)) THEN -1 ELSE 1

IndexPermutations(n) == {f \in [1..n -> 1..n] : \A i, j \in 1..n : f[i] = f[j] => i = j}

\* The arrays a sort with KeyComparator can leave: a permutation of the
\* input with no pair the comparator orders the other way round.  The
\* comparator never answers 0, so the order of items whose keys are equal
\* ignoring case is left to the engine.
SortOutcomes(arr) ==
    LET n == Len(arr)
        perms == {[i \in 1..n |-> arr[f[i]]] : f \in IndexPermutations(n)}
    IN {p \in perms : \A i, j \in 1..n : i < j => KeyComparator(p[j], p[i]) > 0}

-----------------------------------------------------------------------------
(* filterEnvBySource *)

filterEnvBySource(e, source) ==
    [k \in {k \in DOMAIN e : e[k].sources[1] = source} |-> e[k]]

-----------------------------------------------------------------------------
(* fetchEnvelopeItems *)

\* a JavaScript value that is either a plain object or an array
ObjectValue == [type |-> "object"]
ArrayValue(items) == [type |-> "array", items |-> items]

Fulfilled(value) == [state |-> "fulfilled", value |-> value]
Rejected(reason) == [state |-> "rejected", reason |-> reason]

\* lines 56-58: with no account id the function returns before any request
fetchEnvelopeItemsReturnsEarly(account) == account = Undefined

\* lines 61-66: the request made to the api
fetchEnvelopeItemsRequest(account, k, site) ==
    [method |-> IF k # EmptyString THEN "getEnvVar" ELSE "getEnvVars",
     accountId |-> account, key |-> k, siteId |-> site]

\* a catch block that swallows nothing
fetchEnvelopeItemsRethrows(k, outcome) ==
    IF outcome.status = "ok"
    THEN IF k # EmptyString
         THEN Fulfilled(ArrayValue(<<outcome.body>>))
         ELSE Fulfilled(ArrayValue(outcome.body))
    ELSE Rejected(outcome.error)

\* lines 59-72: what the promise settles with once the api has answered
fetchEnvelopeItemsSettle(k, outcome) ==
    IF outcome.status = "ok"
    THEN IF k # EmptyString
         THEN Fulfilled(ArrayValue(<<outcome.body>>))
         ELSE Fulfilled(ArrayValue(outcome.body))
    ELSE Fulfilled(ArrayValue(<<>>))

-----------------------------------------------------------------------------
(* formatEnvelopeData *)

TypeError == "TypeError"

Threw(err) == [threw |-> TRUE, error |-> err]
Returned(value) == [threw |-> FALSE, value |-> value]

\* line 101: .filter(({ values }) => Boolean(findValueInValues(values, context)))
FilterByContext(items, ctx) ==
    LET F[i \in 0..Len(items)] ==
            IF i = 0 THEN <<>>
            ELSE IF findValueInValues(items[i].values, ctx) # UndefinedValue
                 THEN Append(F[i - 1], items[i]) ELSE F[i - 1]
    IN F[Len(items)]

\* line 103: .filter(({ scopes }) => (scope === 'any' ? true : scopes.includes(scope)))
FilterByScope(items, scp) ==
    LET F[i \in 0..Len(items)] ==
            IF i = 0 THEN <<>>
            ELSE IF (IF scp = "any" THEN TRUE ELSE Includes(items[i].scopes, scp))
                 THEN Append(F[i - 1], items[i]) ELSE F[i - 1]
    IN F[Len(items)]

\* lines 107-119: the record built for one item
ResolvedVariable(cur, ctx, source) ==
    LET found == findValueInValues(cur.values, ctx)
    IN [context |-> found.context,
        branch |-> ContextParameter(found),
        scopes |-> cur.scopes,
        sources |-> <<source>>,
        value |-> found.value]

\* lines 107-119: the reduce over the sorted items
FormatReduce(items, ctx, source) ==
    LET R[i \in 0..Len(items)] ==
            IF i = 0 THEN EmptyObject
            ELSE Spread(R[i - 1],
                        [k \in {items[i].key} |-> ResolvedVariable(items[i], ctx, source)])
    IN R[Len(items)]

\* the outcomes of formatEnvelopeData({ context, envelopeItems, scope, source })
formatEnvelopeData(ctx, envelopeItems, scp, source) ==
    IF envelopeItems.type # "array"
    THEN {Threw(TypeError)}    \* envelopeItems.filter is not a function
    ELSE LET byContext == FilterByContext(envelopeItems.items, ctx)
             byScope == FilterByScope(byContext, scp)
         IN {Returned(FormatReduce(sorted, ctx, source)) : sorted \in SortOutcomes(byScope)}

-----------------------------------------------------------------------------
(* getEnvelopeEnv *)

\* config vars included whatever the scope
includeConfigEnvVarsAlways(scp) == TRUE

\* line 146
includeConfigEnvVars(scp) == Includes(<<"any", "builds", "post_processing">>, scp)

\* the site's variables spread before the account's and the addons'
MergeSourcesSiteEarly(generalEnv, accountEnv, addonsEnv, siteEnv, configFileEnv, scp) ==
    Spread(Spread(Spread(Spread(generalEnv, siteEnv),
                         accountEnv),
                  IF includeConfigEnvVars(scp) THEN addonsEnv ELSE EmptyObject),
           IF includeConfigEnvVars(scp) THEN configFileEnv ELSE EmptyObject)

\* lines 149-155
MergeSources(generalEnv, accountEnv, addonsEnv, siteEnv, configFileEnv, scp) ==
    Spread(Spread(Spread(Spread(generalEnv, accountEnv),
                         IF includeConfigEnvVars(scp) THEN addonsEnv ELSE EmptyObject),
                  siteEnv),
           IF includeConfigEnvVars(scp) THEN configFileEnv ELSE EmptyObject)

\* the values in the order the promises settled in
PromiseAllValuesAsSettled(order, values) ==
    IF Len(order) = 2
    THEN <<values[order[1]].value, values[order[2]].value>>
    ELSE <<values.account.value, values.site.value>>

\* line 134: Promise.all fulfils with the values in the order of the promises
\* it was given, whatever the order they settled in
PromiseAllValues(order, values) == <<values.account.value, values.site.value>>

\* a getEnvelopeEnv that normalizes the context before selecting values
getEnvelopeEnvNormalizing(ctx, e, scp, accountEnvelopeItems, siteEnvelopeItems) ==
    LET accountEnvs == formatEnvelopeData(normalizeContext(ctx), accountEnvelopeItems, scp, "account")
        siteEnvs == formatEnvelopeData(normalizeContext(ctx), siteEnvelopeItems, scp, "ui")
    IN IF \E a \in accountEnvs : a.threw THEN {a \in accountEnvs : a.threw}
       ELSE IF \E s \in siteEnvs : s.threw THEN {s \in siteEnvs : s.threw}
       ELSE {Returned(MergeSources(filterEnvBySource(e, "general"),
                                   a.value,
                                   filterEnvBySource(e, "addons"),
                                   s.value,
                                   filterEnvBySource(e, "configFile"),
                                   scp)) : a \in accountEnvs, s \in siteEnvs}

\* lines 139-155: the outcomes of the part of getEnvelopeEnv after the await
getEnvelopeEnvAfterAwait(ctx, e, scp, accountEnvelopeItems, siteEnvelopeItems) ==
    LET accountEnvs == formatEnvelopeData(ctx, accountEnvelopeItems, scp, "account")
        siteEnvs == formatEnvelopeData(ctx, siteEnvelopeItems, scp, "ui")
    IN IF \E a \in accountEnvs : a.threw THEN {a \in accountEnvs : a.threw}
       ELSE IF \E s \in siteEnvs : s.threw THEN {s \in siteEnvs : s.threw}
       ELSE {Returned(MergeSources(filterEnvBySource(e, "general"),
                                   a.value,
                                   filterEnvBySource(e, "addons"),
                                   s.value,
                                   filterEnvBySource(e, "configFile"),
                                   scp)) : a \in accountEnvs, s \in siteEnvs}

-----------------------------------------------------------------------------
(* Inputs of a call of getEnvelopeEnv *)

\* keys "A" and "b" as code units
KeyA == <<65>>
KeyB == <<98>>

\* the keys of the local env and of the api's items
Keys == {KeyA, KeyB}

\* an entry of the local env, tagged with the source it came from
LocalVariable(source) == [sources |-> <<source>>, value |-> source]

LocalSources == {"general", "addons", "configFile"}

LocalEnvs ==
    UNION {[ks -> {LocalVariable(src) : src \in LocalSources}] : ks \in SUBSET Keys}

ContextInputs == {DEV, PRODUCTION, PROD, DP, STAGING, BRANCH_STAGING}

ScopeInputs == {"any", "builds", "functions", "runtime", "post_processing"}

KeyInputs == {EmptyString, KeyA}

\* the `values` arrays of the items the store holds
ValuesAll == <<[context |-> ALL, value |-> "x"]>>
ValuesByContext ==
    <<[context |-> DEV, value |-> "d"],
      [context |-> PRODUCTION, value |-> "p"],
      [context |-> BRANCH, context_parameter |-> STAGING, value |-> "s"],
      [context |-> BRANCH, context_parameter |-> PROD, value |-> "q"]>>

EnvelopeItem(k, scopes, values) == [key |-> k, scopes |-> scopes, values |-> values]

ItemsOfKey(k) ==
    {EnvelopeItem(k, AVAILABLE_SCOPES, ValuesAll),
     EnvelopeItem(k, <<"builds", "functions">>, ValuesByContext)}

\* lists of at most n items of the given set, one item per key at most
ItemLists(items, n) ==
    {l \in UNION {[1..m -> items] : m \in 0..n} :
        \A i, j \in 1..Len(l) : l[i].key = l[j].key => i = j}

ApiErrors == {"forbidden", "network"}

ApiOk(body) == [status |-> "ok", body |-> body]
ApiError(err) == [status |-> "error", error |-> err]

\* what the api can answer to a request
ApiOutcomes(request) ==
    {ApiError(err) : err \in ApiErrors}
    \cup (IF request.method = "getEnvVar"
          THEN {ApiOk(item) : item \in ItemsOfKey(request.key)}
          ELSE {ApiOk(list) : list \in ItemLists(UNION {ItemsOfKey(k) : k \in Keys}, MaxItems)})

\* siteInfo of the site the call is made for
AccountSlug == <<"account">>
SiteId == <<"site">>

NoOutcome == [status |-> "none"]
NoError == "none"
NoValue == [state |-> "pending"]

-----------------------------------------------------------------------------
(* The translators and findValueInValues idle while getEnvelopeEnv runs *)

TranslateIdle ==
    /\ tpc = "idle" /\ mongo = <<>> /\ envVars = <<>> /\ envVarsBefore = <<>>
    /\ tcontext = Undefined /\ tresult = EmptyObject

FindIdle ==
    /\ fpc = "idle" /\ fvalues = <<>> /\ fcontext = Undefined /\ fresult = UndefinedValue

EnvelopeIdle ==
    /\ pc = "idle" /\ context = Undefined /\ scope = "any" /\ key = EmptyString
    /\ env = EmptyObject /\ accountId = Undefined /\ siteId = Undefined
    /\ fetches = <<>> /\ pending = {} /\ settled = <<>>
    /\ apiOutcome = [w \in {"account", "site"} |-> NoOutcome]
    /\ fetched = [w \in {"account", "site"} |-> NoValue]
    /\ result = EmptyObject /\ error = NoError

-----------------------------------------------------------------------------
(* One call of getEnvelopeEnv *)

Init ==
    /\ pc = "start"
    /\ context \in ContextInputs
    /\ scope \in ScopeInputs
    /\ key \in KeyInputs
    /\ env \in LocalEnvs
    /\ accountId \in {Undefined, AccountSlug}
    /\ siteId = SiteId
    /\ fetches = <<>>
    /\ pending = {}
    /\ settled = <<>>
    /\ apiOutcome = [w \in {"account", "site"} |-> NoOutcome]
    /\ fetched = [w \in {"account", "site"} |-> NoValue]
    /\ result = EmptyObject
    /\ error = NoError
    /\ TranslateIdle
    /\ FindIdle

\* a call of fetchEnvelopeItems up to its first await (or its early return)
CallFetchEnvelopeItems(which, site) ==
    IF fetchEnvelopeItemsReturnsEarly(accountId)
    THEN /\ fetched' = [fetched EXCEPT ![which] = Fulfilled(ObjectValue)]
         /\ UNCHANGED <<fetches, pending>>
    ELSE /\ fetches' = Append(fetches, fetchEnvelopeItemsRequest(accountId, key, site))
         /\ pending' = pending \cup {which}
         /\ UNCHANGED fetched

\* line 135: fetchEnvelopeItems({ api, accountId, key })
FetchAccount ==
    /\ pc = "start"
    /\ CallFetchEnvelopeItems("account", Undefined)
    /\ pc' = "accountCalled"
    /\ UNCHANGED <<context, scope, key, env, accountId, siteId, settled, apiOutcome,
                   result, error, translateVars, findVars>>

\* line 136: fetchEnvelopeItems({ api, accountId, key, siteId })
FetchSite ==
    /\ pc = "accountCalled"
    /\ CallFetchEnvelopeItems("site", siteId)
    /\ pc' = "awaiting"
    /\ UNCHANGED <<context, scope, key, env, accountId, siteId, settled, apiOutcome,
                   result, error, translateVars, findVars>>

RequestOf(which) == IF which = "account" THEN fetches[1] ELSE fetches[2]

\* the api answers one of the two requests; fetchEnvelopeItems resumes and
\* settles.  A rejection would reject Promise.all, and with it the call.
ApiAnswers(which) ==
    /\ pc = "awaiting"
    /\ which \in pending
    /\ \E outcome \in ApiOutcomes(RequestOf(which)) :
        LET promise == fetchEnvelopeItemsSettle(key, outcome)
        IN /\ apiOutcome' = [apiOutcome EXCEPT ![which] = outcome]
           /\ fetched' = [fetched EXCEPT ![which] = promise]
           /\ IF promise.state = "rejected"
              THEN pc' = "rejected" /\ error' = promise.reason
              ELSE pc' = pc /\ error' = error
    /\ pending' = pending \ {which}
    /\ settled' = Append(settled, which)
    /\ UNCHANGED <<context, scope, key, env, accountId, siteId, fetches, result,
                   translateVars, findVars>>

\* lines 134-155: both promises are fulfilled, the call resumes after the await
Resume ==
    /\ pc = "awaiting"
    /\ pending = {}
    /\ LET items == PromiseAllValues(settled, fetched)
       IN \E outcome \in getEnvelopeEnvAfterAwait(context, env, scope, items[1], items[2]) :
            IF outcome.threw
            THEN pc' = "rejected" /\ error' = outcome.error /\ result' = result
            ELSE pc' = "resolved" /\ result' = outcome.value /\ error' = error
    /\ UNCHANGED <<context, scope, key, env, accountId, siteId, fetches, pending,
                   settled, apiOutcome, fetched, translateVars, findVars>>

Next ==
    \/ FetchAccount
    \/ FetchSite
    \/ ApiAnswers("account")
    \/ ApiAnswers("site")
    \/ Resume

Spec == Init /\ [][Next]_vars

-----------------------------------------------------------------------------
(* translateFromMongoToEnvelope, translateFromEnvelopeToMongo *)

\* a flat env is given as the list of its entries, in insertion order:
\* Object.entries(env)
ObjectEntries(entries) == entries

\* the flat env as a dictionary
ObjectFromEntries(entries) ==
    [k \in {entries[i][1] : i \in 1..Len(entries)} |->
        (CHOOSE e \in {entries[i] : i \in 1..Len(entries)} : e[1] = k)[2]]

\* a translation that tags the values `dev` instead of `all`
translateFromMongoToEnvelopeTaggedDev(entries) ==
    [i \in 1..Len(ObjectEntries(entries)) |->
        [key |-> entries[i][1],
         scopes |-> AVAILABLE_SCOPES,
         values |-> <<[context |-> DEV, value |-> entries[i][2]]>>]]

translateFromMongoToEnvelope(entries) ==
    [i \in 1..Len(ObjectEntries(entries)) |->
        [key |-> entries[i][1],
         scopes |-> AVAILABLE_SCOPES,
         values |-> <<[context |-> ALL, value |-> entries[i][2]]>>]]

\* val.context_parameter || val.context
ContextParameterOrContext(val) ==
    IF ContextParameter(val) # Undefined /\ ContextParameter(val) # EmptyString
    THEN ContextParameter(val)
    ELSE val.context

\* line 212: cur.values.find(...)
ToMongoFind(values, ctx) ==
    LET hits == {i \in 1..Len(values) :
                    Includes(<<ctx, ALL>>, ContextParameterOrContext(values[i]))}
    IN IF hits = {} THEN UndefinedValue
       ELSE values[CHOOSE i \in hits : \A j \in hits : i <= j]

\* lines 211-220: the reduce over the sorted array
ToMongoReduce(items, ctx) ==
    LET R[i \in 0..Len(items)] ==
            IF i = 0 THEN EmptyObject
            ELSE LET envVar == ToMongoFind(items[i].values, ctx)
                 IN IF envVar # UndefinedValue /\ envVar.value # ""
                    THEN Spread(R[i - 1], [k \in {items[i].key} |-> envVar.value])
                    ELSE R[i - 1]
    IN R[Len(items)]

\* lines 208-220: Array.prototype.sort sorts the array it is called on, in
\* place, and returns it.  The outcomes of a call: the array as the call
\* leaves it, and the object returned.
translateFromEnvelopeToMongo(items, ctx) ==
    {[array |-> sorted, returned |-> ToMongoReduce(sorted, ctx)] :
        sorted \in SortOutcomes(items)}

-----------------------------------------------------------------------------
(* One use of the translators *)

\* keys "a", "B" and "c" as code units: "B" < "a" < "c" as they are,
\* "a" < "b" < "c" in lower case
KeyLowerA == <<97>>
KeyUpperB == <<66>>
KeyLowerC == <<99>>

TranslateKeys == {KeyLowerA, KeyUpperB, KeyLowerC}

MongoValues == {"", "x", "y"}

\* flat envs of at most n entries
FlatEnvs(n) ==
    {l \in UNION {[1..m -> TranslateKeys \X MongoValues] : m \in 0..n} :
        \A i, j \in 1..Len(l) : l[i][1] = l[j][1] => i = j}

TranslateContexts == {ALL, DEV, PRODUCTION, STAGING}

ValuesEmpty == <<[context |-> DEV, value |-> ""]>>

TranslateItems ==
    {EnvelopeItem(k, AVAILABLE_SCOPES, values) :
        k \in TranslateKeys, values \in {ValuesAll, ValuesByContext, ValuesEmpty}}

TranslateInit ==
    /\ tpc = "start"
    /\ mongo \in FlatEnvs(MaxItems)
    /\ tcontext \in TranslateContexts
    /\ envVars = <<>>
    /\ envVarsBefore = <<>>
    /\ tresult = EmptyObject
    /\ EnvelopeIdle
    /\ FindIdle

\* the caller builds the array from a flat env
FromMongo ==
    /\ tpc = "start"
    /\ envVars' = translateFromMongoToEnvelope(mongo)
    /\ tpc' = "translated"
    /\ UNCHANGED <<mongo, envVarsBefore, tcontext, tresult, envelopeVars, findVars>>

\* the caller has an array of items of its own
OwnItems ==
    /\ tpc = "start"
    /\ mongo = <<>>
    /\ envVars' \in ItemLists(TranslateItems, MaxItems)
    /\ tpc' = "given"
    /\ UNCHANGED <<mongo, envVarsBefore, tcontext, tresult, envelopeVars, findVars>>

\* translateFromEnvelopeToMongo(envVars, tcontext)
ToMongo ==
    /\ tpc \in {"translated", "given"}
    /\ envVarsBefore' = envVars
    /\ \E outcome \in translateFromEnvelopeToMongo(envVars, tcontext) :
        /\ envVars' = outcome.array
        /\ tresult' = outcome.returned
    /\ tpc' = IF tpc = "translated" THEN "roundtrip" ELSE "done"
    /\ UNCHANGED <<mongo, tcontext, envelopeVars, findVars>>

TranslateNext == FromMongo \/ OwnItems \/ ToMongo

SpecTranslate == TranslateInit /\ [][TranslateNext]_vars

-----------------------------------------------------------------------------
(* One use of findValueInValues *)

ValueObjects ==
    {[context |-> ALL, value |-> "x"],
     [context |-> PRODUCTION, value |-> "p"],
     [context |-> DEV, value |-> "d"],
     [context |-> BRANCH, context_parameter |-> STAGING, value |-> "s"]}

FindContexts == {ALL, PRODUCTION, DEPLOY_PREVIEW, BRANCH_DEPLOY, DEV, STAGING, PROD}

FindInit ==
    /\ fpc = "start"
    /\ fvalues \in UNION {[1..m -> ValueObjects] : m \in 0..MaxValues}
    /\ fcontext \in FindContexts
    /\ fresult = UndefinedValue
    /\ EnvelopeIdle
    /\ TranslateIdle

Find ==
    /\ fpc = "start"
    /\ fresult' = findValueInValues(fvalues, fcontext)
    /\ fpc' = "done"
    /\ UNCHANGED <<fvalues, fcontext, envelopeVars, translateVars>>

FindNext == Find

SpecFind == FindInit /\ [][FindNext]_vars

-----------------------------------------------------------------------------
(* Vocabulary of the properties *)

Terminated == pc \in {"resolved", "rejected"}

ScopesWithConfig == {"any", "builds", "post_processing"}

\* the dictionary formatEnvelopeData makes of a list of items (one per key)
FormattedEnv(items, source) ==
    (CHOOSE o \in formatEnvelopeData(context, ArrayValue(items), scope, source) : TRUE).value

\* the items an answer of the api stands for: none when it was an error
ItemsOfOutcome(outcome) ==
    IF outcome.status # "ok" THEN <<>>
    ELSE IF key # EmptyString THEN <<outcome.body>> ELSE outcome.body

\* the sources of a resolution, lowest precedence first
ParticipatingSources(accountEnv, siteEnv) ==
    IF scope \in ScopesWithConfig
    THEN <<filterEnvBySource(env, "general"), accountEnv,
           filterEnvBySource(env, "addons"), siteEnv,
           filterEnvBySource(env, "configFile")>>
    ELSE <<filterEnvBySource(env, "general"), accountEnv, siteEnv>>

\* each key of any source, with the record of the last source that has it
PrecedenceMerge(sources) ==
    [k \in UNION {DOMAIN sources[i] : i \in 1..Len(sources)} |->
        LET having == {i \in 1..Len(sources) : k \in DOMAIN sources[i]}
        IN sources[CHOOSE i \in having : \A j \in having : j <= i][k]]

\* the account and site sources of the call, as the call received them
AccountEnv == FormattedEnv(fetched.account.value.items, "account")
SiteEnv == FormattedEnv(fetched.site.value.items, "ui")

-----------------------------------------------------------------------------
(* C1 *)

\* C1: whenever getEnvelopeEnv resolves, the keys of the result are exactly
\* the keys of the participating sources (general, account, addons when the
\* scope includes config vars, ui, configFile when it does), and each key
\* carries the record of the highest-precedence source that has it.
C1_PrecedenceMerge ==
    pc = "resolved" =>
        LET sources == ParticipatingSources(AccountEnv, SiteEnv)
        IN /\ DOMAIN result = UNION {DOMAIN sources[i] : i \in 1..Len(sources)}
           /\ \A k \in DOMAIN result :
                \E i \in 1..Len(sources) :
                    /\ k \in DOMAIN sources[i]
                    /\ \A j \in (i + 1)..Len(sources) : k \notin DOMAIN sources[j]
                    /\ result[k] = sources[i][k]

\* a key held by general, account and ui at once, resolved with scope any:
\* the ui record wins
C1_Witness ==
    /\ pc = "resolved"
    /\ scope = "any"
    /\ KeyA \in DOMAIN filterEnvBySource(env, "general")
    /\ KeyA \in DOMAIN AccountEnv
    /\ KeyA \in DOMAIN SiteEnv
    /\ result[KeyA].sources = <<"ui">>
    /\ KeyB \in DOMAIN filterEnvBySource(env, "configFile")
    /\ KeyB \in DOMAIN SiteEnv
    /\ result[KeyB].sources = <<"configFile">>

-----------------------------------------------------------------------------
(* C2 *)

\* C2: a call made without an account id issues no request and resolves
\* with the local sources only; it never rejects.
C2_NoAccountResolvesLocally ==
    (accountId = Undefined /\ pc \in {"awaiting", "resolved", "rejected"}) =>
        /\ fetches = <<>>
        /\ pc # "rejected"
        /\ pc = "resolved" =>
             result = PrecedenceMerge(ParticipatingSources(EmptyObject, EmptyObject))

-----------------------------------------------------------------------------
(* C3 *)

\* C3: when the api answers either request with an error that is not
\* "forbidden", the call does not resolve: it rejects with that error.
C3_OtherErrorsPropagate ==
    \A which \in {"account", "site"} :
        (apiOutcome[which] = ApiError("network") /\ Terminated) =>
            pc = "rejected" /\ error = "network"

-----------------------------------------------------------------------------
(* C4 *)

\* both promises are fulfilled and the rest of the call throws nothing
ResumeResolves ==
    LET items == PromiseAllValues(settled, fetched)
        outcomes == getEnvelopeEnvAfterAwait(context, env, scope, items[1], items[2])
    IN outcomes # {} /\ \A o \in outcomes : ~o.threw

\* C4: when the api answers the account request (or the site request) with
\* "forbidden", the call is never rejected, can go on to resolve, and
\* resolves with the precedence merge of the other sources, the forbidden
\* source counting as empty.
C4_ForbiddenIsEmpty ==
    /\ (apiOutcome.account = ApiError("forbidden")) =>
        /\ pc # "rejected" /\ error = NoError
        /\ (pc = "awaiting" /\ pending = {}) => ResumeResolves
        /\ pc = "resolved" =>
            result = PrecedenceMerge(ParticipatingSources(
                        EmptyObject, FormattedEnv(ItemsOfOutcome(apiOutcome.site), "ui")))
    /\ (apiOutcome.site = ApiError("forbidden")) =>
        /\ pc # "rejected" /\ error = NoError
        /\ (pc = "awaiting" /\ pending = {}) => ResumeResolves
        /\ pc = "resolved" =>
            result = PrecedenceMerge(ParticipatingSources(
                        FormattedEnv(ItemsOfOutcome(apiOutcome.account), "account"),
                        EmptyObject))

\* the account request was forbidden, the site request answered with items
\* that show in the result
C4_Witness ==
    /\ pc = "resolved"
    /\ apiOutcome.account = ApiError("forbidden")
    /\ apiOutcome.site.status = "ok"
    /\ \E k \in DOMAIN result : result[k].sources = <<"ui">>
    /\ \E k \in DOMAIN result : result[k].sources = <<"general">>

-----------------------------------------------------------------------------
(* C5 *)

\* the flat env without the entries whose value is the empty string
WithoutEmptyValues(object) == [k \in {k \in DOMAIN object : object[k] # ""} |-> object[k]]

\* C5 as stated: translating a flat env to Envelope items and back with
\* context `all` gives the flat env again, empty-string values included.
C5_RoundTripExact ==
    (tpc = "roundtrip" /\ tcontext = ALL) => tresult = ObjectFromEntries(mongo)

\* C5 amended: translating a flat env to Envelope items and back with context
\* `all` gives the flat env without its entries whose value is the empty
\* string; a flat env with no empty-string value comes back exactly.
C5_RoundTripDropsEmpty ==
    (tpc = "roundtrip" /\ tcontext = ALL) =>
        /\ tresult = WithoutEmptyValues(ObjectFromEntries(mongo))
        /\ (\A i \in 1..Len(mongo) : mongo[i][2] # "") => tresult = ObjectFromEntries(mongo)

\* a round trip of two entries given out of key order, one of them empty
C5_Witness ==
    /\ tpc = "roundtrip"
    /\ tcontext = ALL
    /\ Len(mongo) = 2
    /\ mongo[1] = <<KeyLowerC, "x">>
    /\ mongo[2] = <<KeyUpperB, "">>
    /\ DOMAIN tresult = {KeyLowerC}

-----------------------------------------------------------------------------
(* C6 *)

\* an entry a lookup for `ctx` is said to match: one tagged `ctx` or `all`,
\* or tagged `branch` with `ctx` as its branch name
SaidToMatch(val, ctx) ==
    \/ val.context = ctx
    \/ val.context = ALL
    \/ val.context = BRANCH /\ ContextParameter(val) = ctx

\* C6: when `values` holds an entry tagged `all` that no matching entry
\* precedes, findValueInValues returns it, whatever the requested context:
\* an enumerated context or a branch name.
C6_AllAlwaysApplies ==
    fpc = "done" =>
        \A i \in 1..Len(fvalues) :
            (/\ fvalues[i].context = ALL
             /\ \A j \in 1..(i - 1) : ~SaidToMatch(fvalues[j], fcontext))
            => fresult = fvalues[i]

-----------------------------------------------------------------------------
(* C7 *)

\* what the rest of the call can resolve with for a given context
ResolvedWith(ctx) ==
    LET items == PromiseAllValues(settled, fetched)
    IN {o.value : o \in {o \in getEnvelopeEnvAfterAwait(ctx, env, scope, items[1], items[2]) :
                            ~o.threw}}

-----------------------------------------------------------------------------
(* C8 *)

\* C8: a key the local env holds from the config file (or from addons), and
\* that neither the account nor the site holds, is in the result exactly
\* when the scope is builds, post_processing or any; with runtime or
\* functions it is absent.
C8_ConfigGating ==
    pc = "resolved" =>
        \A k \in DOMAIN env :
            (/\ env[k].sources[1] \in {"configFile", "addons"}
             /\ k \notin DOMAIN AccountEnv
             /\ k \notin DOMAIN SiteEnv)
            => /\ scope \in {"runtime", "functions"} => k \notin DOMAIN result
               /\ scope \in {"builds", "post_processing", "any"} =>
                    k \in DOMAIN result /\ result[k] = env[k]

\* a configFile-only key and an addons-only key, resolved with scope runtime
\* next to keys of the other sources
C8_Witness ==
    /\ pc = "resolved"
    /\ scope = "runtime"
    /\ KeyB \in DOMAIN env
    /\ env[KeyB].sources = <<"configFile">>
    /\ KeyB \notin DOMAIN AccountEnv
    /\ KeyB \notin DOMAIN SiteEnv
    /\ KeyB \notin DOMAIN result
    /\ KeyA \in DOMAIN result

-----------------------------------------------------------------------------
(* C9 *)

\* C9: a call with an account id issues exactly two requests, the account's
\* (no site id) and then the site's; no answer is handled before both are
\* issued; the call resolves only after both are answered; and the result
\* is determined by the two answers, whatever the order they came in.
C9_TwoFetchesJoined ==
    accountId # Undefined =>
        /\ Len(fetches) <= 2
        /\ pc \in {"awaiting", "resolved", "rejected"} =>
            /\ Len(fetches) = 2
            /\ fetches[1] = fetchEnvelopeItemsRequest(accountId, key, Undefined)
            /\ fetches[2] = fetchEnvelopeItemsRequest(accountId, key, siteId)
            /\ fetches[1].siteId = Undefined /\ fetches[2].siteId = SiteId
        /\ (settled # <<>> \/ \E w \in {"account", "site"} : apiOutcome[w] # NoOutcome) =>
            Len(fetches) = 2
        /\ pc = "resolved" =>
            /\ pending = {}
            /\ {settled[i] : i \in 1..Len(settled)} = {"account", "site"}
            /\ Len(settled) = 2
            /\ result = PrecedenceMerge(ParticipatingSources(
                            FormattedEnv(ItemsOfOutcome(apiOutcome.account), "account"),
                            FormattedEnv(ItemsOfOutcome(apiOutcome.site), "ui")))

\* the site request is answered first, with other items than the account's
C9_Witness ==
    /\ pc = "resolved"
    /\ settled = <<"site", "account">>
    /\ apiOutcome.account.status = "ok"
    /\ apiOutcome.site.status = "ok"
    /\ apiOutcome.account # apiOutcome.site
    /\ \E k \in DOMAIN result : result[k].sources = <<"account">>
    /\ \E k \in DOMAIN result : result[k].sources = <<"ui">>

-----------------------------------------------------------------------------
(* C10 *)

\* C10: translateFromEnvelopeToMongo leaves the array it is given as it was:
\* the same items in the same order.
C10_ArgumentUnchanged ==
    tpc \in {"done", "roundtrip"} => envVars = envVarsBefore

====
